---- MODULE Spec2Model ----
(***************************************************************************)
(* Model of src/main.py: the POST /process_instagram_url pipeline          *)
(* (auth gate, identifier extraction, image resolution, country lookup,    *)
(* visual search, result filter, response wrapping).                       *)
(*                                                                         *)
(* Python strings are sequences of one-character strings, so that split    *)
(* and startswith are computed as Python computes them.  A Python value    *)
(* that may be None is [some |-> FALSE] or [some |-> TRUE, val |-> v].     *)
(***************************************************************************)
EXTENDS Integers, Sequences, FiniteSets, TLC

VARIABLES AUTH_TOKEN, pc, auth_header, url, country, post_id, image_url,
          country_iso, result, response, ig_reply, lens_reply, calls, stages

vars == <<AUTH_TOKEN, pc, auth_header, url, country, post_id, image_url,
          country_iso, result, response, ig_reply, lens_reply, calls, stages>>

-----------------------------------------------------------------------------
(* Bounds of the model *)

MaxHdrTail == 4
MaxUrlLen == 6
MaxMatches == 2

-----------------------------------------------------------------------------
(* Python values *)

None == [some |-> FALSE]
Some(v) == [some |-> TRUE, val |-> v]

\* all sequences over S of length at most n
SeqsUpTo(S, n) == UNION {[1..k -> S] : k \in 0..n}

\* s.startswith(p)
StartsWith(s, p) == Len(s) >= Len(p) /\ SubSeq(s, 1, Len(p)) = p

\* s.find(sep): the least index at which sep occurs in s, 0 when it does not
Find(s, sep) ==
  LET hits == {i \in 1..(Len(s) - Len(sep) + 1) : SubSeq(s, i, i + Len(sep) - 1) = sep}
  IN IF hits = {} THEN 0 ELSE CHOOSE i \in hits : \A j \in hits : i <= j

\* s.split(sep) for a non-empty separator: the pieces between the
\* non-overlapping occurrences of sep, scanned left to right
RECURSIVE PySplit(_, _)
PySplit(s, sep) ==
  LET i == Find(s, sep)
  IN IF i = 0 THEN <<s>>
     ELSE <<SubSeq(s, 1, i - 1)>> \o PySplit(SubSeq(s, i + Len(sep), Len(s)), sep)

-----------------------------------------------------------------------------
(* Results of a stage: a value, or the HTTPException it raises *)

Ok(v) == [ok |-> TRUE, val |-> v]
HTTPException(status_code, detail) == [ok |-> FALSE, status |-> status_code, detail |-> detail]
\* an exception no handler of main.py catches: the server answers 500
Unhandled == HTTPException(500, "Internal Server Error")

-----------------------------------------------------------------------------
(* verify_auth_token *)

BearerPrefix == <<"B", "e", "a", "r", "e", "r", " ">>

\* variant: no configured secret switches the token check off
verify_auth_token_unset_secret(h) ==
  IF ~h.some \/ ~StartsWith(h.val, BearerPrefix)
  THEN HTTPException(401, "Authorization header missing or invalid")
  ELSE LET token == PySplit(h.val, <<" ">>)[2]
       IN IF AUTH_TOKEN.some /\ Some(token) # AUTH_TOKEN
          THEN HTTPException(403, "Invalid auth token")
          ELSE Ok(None)

verify_auth_token(h) ==
  IF ~h.some \/ ~StartsWith(h.val, BearerPrefix)
  THEN HTTPException(401, "Authorization header missing or invalid")
  ELSE LET token == PySplit(h.val, <<" ">>)[2]
       IN IF Some(token) # AUTH_TOKEN
          THEN HTTPException(403, "Invalid auth token")
          ELSE Ok(None)

-----------------------------------------------------------------------------
(* extract_instagram_id *)

PostMarker == <<"/", "p", "/">>

\* variant: the second split, on "/", is left out
extract_instagram_id_no_second_split(u) ==
  LET parts == PySplit(u, PostMarker)
  IN IF Len(parts) < 2
     THEN HTTPException(400, "Invalid Instagram URL format")
     ELSE Ok(parts[2])

extract_instagram_id(u) ==
  LET parts == PySplit(u, PostMarker)
  IN IF Len(parts) < 2
     THEN HTTPException(400, "Invalid Instagram URL format")
     ELSE Ok(PySplit(parts[2], <<"/">>)[1])

-----------------------------------------------------------------------------
(* get_country_iso_code: the registry is pycountry's table, name -> alpha_2 *)

Registry == [n \in {"India", "Germany"} |-> IF n = "India" THEN "IN" ELSE "DE"]

\* pycountry.countries.get(name=...): the entry, or None when there is none
countries_get(name) == IF name \in DOMAIN Registry THEN Some(Registry[name]) ELSE None

\* variant: an unknown name falls back to India's code
get_country_iso_code_default(country_name) ==
  LET c == countries_get(country_name)
  IN IF c.some THEN Ok(c.val) ELSE Ok("IN")

get_country_iso_code(country_name) ==
  LET c == countries_get(country_name)
  IN IF c.some THEN Ok(c.val)
     ELSE HTTPException(400, "Invalid country name provided")

-----------------------------------------------------------------------------
(* image_downloader: what it makes of the reply to its POST *)

NoReply == [kind |-> "none"]

\* the bodies of a 200 reply, by what the lookup
\* response.json()['data']['xdt_shortcode_media']['thumbnail_src'] meets
IgBodies == {"thumbnail", "null_thumbnail", "missing_key", "null_media", "not_json"}

IgReplies ==
  {[kind |-> "exception"]}
  \cup {[kind |-> "response", status |-> 200, body |-> b] : b \in IgBodies}
  \cup {[kind |-> "response", status |-> s, body |-> "any"] : s \in {204, 404, 500}}

\* variant: a missing key yields None instead of raising
image_downloader_swallow_keyerror(reply) ==
  IF reply.kind = "exception" THEN Unhandled
  ELSE IF reply.status # 200
  THEN HTTPException(reply.status, "Error retrieving data from Instagram")
  ELSE CASE reply.body = "thumbnail" -> Ok(Some("https://img/x.jpg"))
         [] reply.body \in {"null_thumbnail", "missing_key"} -> Ok(None)
         [] OTHER -> Unhandled

image_downloader(reply) ==
  IF reply.kind = "exception" THEN Unhandled
  ELSE IF reply.status # 200
  THEN HTTPException(reply.status, "Error retrieving data from Instagram")
  ELSE CASE reply.body = "thumbnail" -> Ok(Some("https://img/x.jpg"))
         [] reply.body = "null_thumbnail" -> Ok(None)
         [] reply.body = "missing_key" ->
              HTTPException(500, "Invalid response structure from Instagram")
         [] OTHER -> Unhandled

-----------------------------------------------------------------------------
(* filter_visual_matches *)

\* a match record: a JSON object with some of these keys; a value is the
\* name of a JSON value (true, false, the number 1, null, an object)
PriceValues == {"object", "null"}
InStockValues == {"true", "false", "1"}
MatchRecords ==
  {m \in UNION {[D -> PriceValues \cup InStockValues] : D \in SUBSET {"price", "in_stock"}} :
     /\ "price" \in DOMAIN m => m["price"] \in PriceValues
     /\ "in_stock" \in DOMAIN m => m["in_stock"] \in InStockValues}

\* variant: the "price" test is left out
match_kept_no_price(m) ==
  /\ "in_stock" \in DOMAIN m
  /\ m["in_stock"] = "true"

\* the condition of the loop body
match_kept(m) ==
  /\ "price" \in DOMAIN m
  /\ "in_stock" \in DOMAIN m
  /\ m["in_stock"] = "true"

\* variant: a kept record is put at the front of the list
RECURSIVE filter_visual_matches_prepend(_)
filter_visual_matches_prepend(visual_matches) ==
  IF visual_matches = <<>> THEN <<>>
  ELSE filter_visual_matches_prepend(Tail(visual_matches))
       \o (IF match_kept(Head(visual_matches)) THEN <<Head(visual_matches)>> ELSE <<>>)

RECURSIVE filter_visual_matches(_)
filter_visual_matches(visual_matches) ==
  IF visual_matches = <<>> THEN <<>>
  ELSE (IF match_kept(Head(visual_matches)) THEN <<Head(visual_matches)>> ELSE <<>>)
       \o filter_visual_matches(Tail(visual_matches))

-----------------------------------------------------------------------------
(* google_lens_search: what it makes of the reply to its GET *)

\* the JSON objects of a 200 reply: always some other key, and
\* "visual_matches" present or not
LensResults ==
  {[k \in {"search_metadata"} |-> "object"]}
  \cup {[k \in {"search_metadata", "visual_matches"} |->
           IF k = "visual_matches" THEN ms ELSE "object"] :
        ms \in SeqsUpTo(MatchRecords, MaxMatches)}

LensReplies ==
  {[kind |-> "exception"]}
  \cup {[kind |-> "response", status |-> 200, json |-> r] : r \in LensResults}
  \cup {[kind |-> "response", status |-> s] : s \in {204, 429, 500}}

\* variant: the reply is returned as received
google_lens_search_unfiltered(reply) ==
  IF reply.kind = "exception" THEN Unhandled
  ELSE IF reply.status # 200
  THEN HTTPException(reply.status, "Error retrieving data from Google Lens API")
  ELSE Ok(reply.json)

google_lens_search(reply) ==
  IF reply.kind = "exception" THEN Unhandled
  ELSE IF reply.status # 200
  THEN HTTPException(reply.status, "Error retrieving data from Google Lens API")
  ELSE LET r == reply.json
       IN IF "visual_matches" \in DOMAIN r
          THEN Ok([r EXCEPT !["visual_matches"] = filter_visual_matches(@)])
          ELSE Ok(r)

\* whether google_lens_search reaches its call of filter_visual_matches
filter_called(reply) ==
  /\ reply.kind = "response"
  /\ reply.status = 200
  /\ "visual_matches" \in DOMAIN reply.json

-----------------------------------------------------------------------------
(* The inputs of a request *)

HdrTailAlphabet == {" ", "s"}
Schemes == {<<"B", "e", "a", "r", "e", "r">>, <<"b", "e", "a", "r", "e", "r">>}
Headers ==
  {None} \cup {Some(sc \o t) : sc \in Schemes, t \in SeqsUpTo(HdrTailAlphabet, MaxHdrTail)}

Secrets == {None, Some(<<>>), Some(<<"s">>)}

UrlAlphabet == {"/", "p", "a"}
RequestUrls ==
  { <<>>,
    <<"a">>,
    <<"/", "a", "/">>,
    <<"/", "p", "/">>,
    <<"/", "p", "/", "/">>,
    <<"/", "p", "/", "a">>,
    <<"/", "p", "/", "a", "/">>,
    <<"a", "/", "p", "/", "a", "/", "p", "/", "a">> }

Countries == {"India", "Atlantis"}

-----------------------------------------------------------------------------
(* The request handler, one action per stage *)

NoResponse == [status |-> 0]
ErrorResponse(e) == [status |-> e.status, detail |-> e.detail]

Init ==
  /\ AUTH_TOKEN \in Secrets
  /\ pc = "idle"
  /\ auth_header = None
  /\ url = <<>>
  /\ country = "India"
  /\ post_id = None
  /\ image_url = None
  /\ country_iso = None
  /\ result = None
  /\ response = NoResponse
  /\ ig_reply = NoReply
  /\ lens_reply = NoReply
  /\ calls = <<>>
  /\ stages = <<>>

\* a request arrives: its Authorization header and its body
Receive ==
  /\ pc = "idle"
  /\ auth_header' \in Headers
  /\ url' \in RequestUrls
  /\ country' \in Countries
  /\ pc' = "verify_auth"
  /\ UNCHANGED <<AUTH_TOKEN, post_id, image_url, country_iso, result, response,
                 ig_reply, lens_reply, calls, stages>>

VerifyAuthToken ==
  /\ pc = "verify_auth"
  /\ LET r == verify_auth_token(auth_header)
     IN IF r.ok
        THEN pc' = "extract" /\ UNCHANGED response
        ELSE pc' = "done" /\ response' = ErrorResponse(r)
  /\ stages' = Append(stages, "auth")
  /\ UNCHANGED <<AUTH_TOKEN, auth_header, url, country, post_id, image_url,
                 country_iso, result, ig_reply, lens_reply, calls>>

ExtractInstagramId ==
  /\ pc = "extract"
  /\ LET r == extract_instagram_id(url)
     IN IF r.ok
        THEN pc' = "resolve" /\ post_id' = Some(r.val) /\ UNCHANGED response
        ELSE pc' = "done" /\ response' = ErrorResponse(r) /\ UNCHANGED post_id
  /\ stages' = Append(stages, "extract")
  /\ UNCHANGED <<AUTH_TOKEN, auth_header, url, country, image_url,
                 country_iso, result, ig_reply, lens_reply, calls>>

\* variant: a failed resolver call is tried once more
ImageDownloader_retry ==
  /\ pc = "resolve"
  /\ \E reply \in IgReplies :
       /\ ig_reply' = reply
       /\ LET r == image_downloader(reply)
          IN IF r.ok
             THEN pc' = "country" /\ image_url' = r.val /\ UNCHANGED response
             ELSE IF calls = <<>>
             THEN pc' = "resolve" /\ UNCHANGED <<response, image_url>>
             ELSE pc' = "done" /\ response' = ErrorResponse(r) /\ UNCHANGED image_url
  /\ calls' = Append(calls, [service |-> "instagram", shortcode |-> post_id.val])
  /\ stages' = IF calls = <<>> THEN Append(stages, "resolve") ELSE stages
  /\ UNCHANGED <<AUTH_TOKEN, auth_header, url, country, post_id,
                 country_iso, result, lens_reply>>

ImageDownloader ==
  /\ pc = "resolve"
  /\ \E reply \in IgReplies :
       /\ ig_reply' = reply
       /\ LET r == image_downloader(reply)
          IN IF r.ok
             THEN pc' = "country" /\ image_url' = r.val /\ UNCHANGED response
             ELSE pc' = "done" /\ response' = ErrorResponse(r) /\ UNCHANGED image_url
  /\ calls' = Append(calls, [service |-> "instagram", shortcode |-> post_id.val])
  /\ stages' = Append(stages, "resolve")
  /\ UNCHANGED <<AUTH_TOKEN, auth_header, url, country, post_id,
                 country_iso, result, lens_reply>>

GetCountryIsoCode ==
  /\ pc = "country"
  /\ LET r == get_country_iso_code(country)
     IN IF r.ok
        THEN pc' = "search" /\ country_iso' = Some(r.val) /\ UNCHANGED response
        ELSE pc' = "done" /\ response' = ErrorResponse(r) /\ UNCHANGED country_iso
  /\ stages' = Append(stages, "country")
  /\ UNCHANGED <<AUTH_TOKEN, auth_header, url, country, post_id, image_url,
                 result, ig_reply, lens_reply, calls>>

GoogleLensSearch ==
  /\ pc = "search"
  /\ \E reply \in LensReplies :
       /\ lens_reply' = reply
       /\ LET r == google_lens_search(reply)
          IN IF r.ok
             THEN pc' = "respond" /\ result' = Some(r.val) /\ UNCHANGED response
             ELSE pc' = "done" /\ response' = ErrorResponse(r) /\ UNCHANGED result
       /\ stages' = IF filter_called(reply)
                    THEN stages \o <<"search", "filter">>
                    ELSE Append(stages, "search")
  /\ calls' = Append(calls, [service |-> "serpapi", url |-> image_url,
                             country |-> country_iso.val])
  /\ UNCHANGED <<AUTH_TOKEN, auth_header, url, country, post_id, image_url,
                 country_iso, ig_reply>>

\* the return statement of process_instagram_url
Respond ==
  /\ pc = "respond"
  /\ response' = [status |-> 200, body |-> [google_lens_result |-> result.val]]
  /\ pc' = "done"
  /\ stages' = Append(stages, "wrap")
  /\ UNCHANGED <<AUTH_TOKEN, auth_header, url, country, post_id, image_url,
                 country_iso, result, ig_reply, lens_reply, calls>>

Next ==
  \/ Receive
  \/ VerifyAuthToken
  \/ ExtractInstagramId
  \/ ImageDownloader
  \/ GetCountryIsoCode
  \/ GoogleLensSearch
  \/ Respond

Spec == Init /\ [][Next]_vars

-----------------------------------------------------------------------------
(* extract_instagram_id on its own: an authorized request with any URL     *)
(* over UrlAlphabet of length at most MaxUrlLen stands at the extraction    *)
(* step                                                                     *)

InitExtract ==
  /\ AUTH_TOKEN = Some(<<"s">>)
  /\ pc = "extract"
  /\ auth_header = Some(BearerPrefix \o <<"s">>)
  /\ url \in SeqsUpTo(UrlAlphabet, MaxUrlLen)
  /\ country = "India"
  /\ post_id = None
  /\ image_url = None
  /\ country_iso = None
  /\ result = None
  /\ response = NoResponse
  /\ ig_reply = NoReply
  /\ lens_reply = NoReply
  /\ calls = <<>>
  /\ stages = <<"auth">>

SpecExtract == InitExtract /\ [][ExtractInstagramId]_vars

-----------------------------------------------------------------------------
(* Properties *)

Range(s) == {s[i] : i \in 1..Len(s)}
Least(S) == CHOOSE i \in S : \A j \in S : i <= j

\* the text of header value v after "Bearer ", up to the next space or the end
CarriedToken(v) ==
  LET rest == SubSeq(v, Len(BearerPrefix) + 1, Len(v))
      spaces == {i \in 1..Len(rest) : rest[i] = " "}
  IN IF spaces = {} THEN rest ELSE SubSeq(rest, 1, Least(spaces) - 1)

HeaderMalformed == ~auth_header.some \/ ~StartsWith(auth_header.val, BearerPrefix)
TokenMismatch == ~HeaderMalformed /\ Some(CarriedToken(auth_header.val)) # AUTH_TOKEN
Authorized == ~HeaderMalformed /\ Some(CarriedToken(auth_header.val)) = AUTH_TOKEN

ResolverCalled == \E i \in 1..Len(calls) : calls[i].service = "instagram"
SearchCalled == \E i \in 1..Len(calls) : calls[i].service = "serpapi"

\* C1: a request whose Authorization header is missing or does not start
\* with "Bearer " is answered 401, one whose token differs from the
\* configured secret is answered 403, and in both cases the request stops at
\* the auth gate with no outbound call made.
C1_AuthGate ==
  pc # "idle" =>
    /\ HeaderMalformed =>
         /\ calls = <<>>
         /\ pc \in {"verify_auth", "done"}
         /\ pc = "done" => response.status = 401
    /\ TokenMismatch =>
         /\ calls = <<>>
         /\ pc \in {"verify_auth", "done"}
         /\ pc = "done" => response.status = 403

C1_Witness ==
  /\ pc = "done"
  /\ AUTH_TOKEN = Some(<<"s">>)
  /\ TokenMismatch
  /\ response.status = 403
  /\ calls = <<>>

\* the resolver call failed: its status is not 200, or the expected field is
\* absent from the body (or the call or the parse of its body raised)
ResolverFailed ==
  \/ ig_reply.kind = "exception"
  \/ /\ ig_reply.kind = "response"
     /\ \/ ig_reply.status # 200
        \/ ig_reply.body \notin {"thumbnail", "null_thumbnail"}

\* C2: once the content-resolver call has failed, the visual-search call is
\* never made for the request.
C2_NoSearchAfterResolverFailure ==
  ResolverFailed =>
    /\ ~SearchCalled
    /\ "search" \notin Range(stages)
    /\ lens_reply = NoReply
    /\ pc = "done"

C2_Witness ==
  /\ pc = "done"
  /\ ig_reply.kind = "response"
  /\ ig_reply.status = 404
  /\ response.status = 404
  /\ ResolverCalled
  /\ ~SearchCalled

\* the places of "/p/" in u, and the "/" that follow the first of them
Markers(u) ==
  {i \in 1..Len(u) : i + 2 <= Len(u) /\ u[i] = "/" /\ u[i + 1] = "p" /\ u[i + 2] = "/"}
SlashesAfterMarker(u) == {j \in (Least(Markers(u)) + 3)..Len(u) : u[j] = "/"}
\* u has the shape .../p/<id>/...
HasPostSegment(u) == Markers(u) # {} /\ SlashesAfterMarker(u) # {}
\* the text between the first "/p/" and the next "/"
PostSegment(u) == SubSeq(u, Least(Markers(u)) + 3, Least(SlashesAfterMarker(u)) - 1)

\* C3: for a URL of the shape .../p/<id>/... the extractor returns exactly
\* <id>, the text between the first "/p/" and the next "/"; for a URL without
\* "/p/" it fails with HTTP 400 and returns no identifier.
C3_ExtractorContract ==
  pc # "extract" =>
    /\ HasPostSegment(url) => pc = "resolve" /\ post_id = Some(PostSegment(url))
    /\ Markers(url) = {} =>
         /\ pc = "done"
         /\ post_id = None
         /\ response = [status |-> 400, detail |-> "Invalid Instagram URL format"]

C3_Witness ==
  /\ pc = "resolve"
  /\ HasPostSegment(url)
  /\ Cardinality(Markers(url)) = 2
  /\ post_id.val # <<>>

\* C4: the identifier handed to the content resolver is never empty: a URL
\* that yields an empty identifier is rejected.
C4_IdentifierNonEmpty ==
  /\ post_id.some => post_id.val # <<>>
  /\ \A i \in 1..Len(calls) :
       calls[i].service = "instagram" => calls[i].shortcode # <<>>

\* the places of the records of L that have a "price" field and an
\* "in_stock" field whose value is true
KeptPlaces(L) ==
  {i \in 1..Len(L) :
     "price" \in DOMAIN L[i] /\ "in_stock" \in DOMAIN L[i] /\ L[i]["in_stock"] = "true"}

\* out is the subsequence of L made of its records at KeptPlaces, in order
IsKeptSubsequence(out, L) ==
  /\ Len(out) = Cardinality(KeptPlaces(L))
  /\ \A i \in KeptPlaces(L) : out[Cardinality({j \in KeptPlaces(L) : j <= i})] = L[i]

Filtered == result.some /\ "visual_matches" \in DOMAIN lens_reply.json

\* C5: the filter's output is exactly the subsequence of its input made of
\* the records with a "price" field and an "in_stock" field that is true,
\* in their order and unaltered.
C5_FilterIsKeptSubsequence ==
  Filtered =>
    IsKeptSubsequence(result.val["visual_matches"], lens_reply.json["visual_matches"])

C5_Witness ==
  /\ Filtered
  /\ Len(lens_reply.json["visual_matches"]) = MaxMatches
  /\ Len(result.val["visual_matches"]) = MaxMatches - 1
  /\ \E i \in 1..MaxMatches :
       /\ "in_stock" \in DOMAIN lens_reply.json["visual_matches"][i]
       /\ lens_reply.json["visual_matches"][i]["in_stock"] = "1"

\* C6: the filter is idempotent: applied to its own output it returns that
\* output.
C6_FilterIdempotent ==
  Filtered =>
    filter_visual_matches(result.val["visual_matches"]) = result.val["visual_matches"]

C6_Witness ==
  /\ Filtered
  /\ Len(result.val["visual_matches"]) = MaxMatches
  /\ result.val["visual_matches"][1] # result.val["visual_matches"][MaxMatches]

IsSuccessStatus(s) == s \in 200..299

\* C7: a non-success status s of either outbound call ends the request with
\* an error response of status s, and a success status never ends it with an
\* upstream-failure error.
C7_UpstreamStatusPropagated ==
  pc = "done" =>
    /\ ig_reply.kind = "response" =>
         /\ ~IsSuccessStatus(ig_reply.status) =>
              "detail" \in DOMAIN response /\ response.status = ig_reply.status
         /\ IsSuccessStatus(ig_reply.status) =>
              ("detail" \in DOMAIN response =>
                 response.detail # "Error retrieving data from Instagram")
    /\ lens_reply.kind = "response" =>
         /\ ~IsSuccessStatus(lens_reply.status) =>
              "detail" \in DOMAIN response /\ response.status = lens_reply.status
         /\ IsSuccessStatus(lens_reply.status) =>
              ("detail" \in DOMAIN response =>
                 response.detail # "Error retrieving data from Google Lens API")

\* C8: when every stage succeeds the response is 200 with the single field
\* google_lens_result, whose value is the search reply with "visual_matches",
\* when present, replaced by its filtered list and every other key unchanged.
C8_SuccessBody ==
  (pc = "done" /\ lens_reply.kind = "response" /\ lens_reply.status = 200) =>
    /\ response.status = 200
    /\ DOMAIN response = {"status", "body"}
    /\ DOMAIN response.body = {"google_lens_result"}
    /\ LET R == lens_reply.json
           Rf == response.body["google_lens_result"]
       IN /\ DOMAIN Rf = DOMAIN R
          /\ \A k \in DOMAIN R \ {"visual_matches"} : Rf[k] = R[k]
          /\ "visual_matches" \in DOMAIN R =>
               IsKeptSubsequence(Rf["visual_matches"], R["visual_matches"])
          /\ "visual_matches" \notin DOMAIN R => Rf = R

C8_Witness ==
  /\ pc = "done"
  /\ response.status = 200
  /\ "visual_matches" \in DOMAIN lens_reply.json
  /\ Len(lens_reply.json["visual_matches"]) = 2
  /\ Len(response.body["google_lens_result"]["visual_matches"]) = 1
  /\ "search_metadata" \in DOMAIN response.body["google_lens_result"]

CountryUnmatched == country \notin DOMAIN Registry
ResolverSucceeded ==
  /\ ig_reply.kind = "response"
  /\ ig_reply.status = 200
  /\ ig_reply.body \in {"thumbnail", "null_thumbnail"}

\* C9 as stated: every authorized request whose country name has no match in
\* the registry is answered 400, and the visual-search call is never made.
C9_UnmatchedCountryAlways400 ==
  (pc = "done" /\ Authorized /\ CountryUnmatched) =>
    response.status = 400 /\ ~SearchCalled

\* C9 as amended: an authorized request whose country name has no match in
\* the registry never reaches the visual-search call and is answered with an
\* error; the error is 400 unless the content-resolver call, which precedes
\* the country lookup, failed, and then it is the resolver stage's error.
C9_UnmatchedCountryRejected ==
  (pc # "idle" /\ Authorized /\ CountryUnmatched) =>
    /\ ~SearchCalled
    /\ pc # "search" /\ pc # "respond"
    /\ pc = "done" =>
         /\ "detail" \in DOMAIN response
         /\ ~ResolverFailed => response.status = 400
         /\ ResolverFailed =>
              response.detail \in {"Error retrieving data from Instagram",
                                   "Invalid response structure from Instagram",
                                   "Internal Server Error"}

C9_Witness ==
  /\ pc = "done"
  /\ Authorized
  /\ CountryUnmatched
  /\ ResolverSucceeded
  /\ response = [status |-> 400, detail |-> "Invalid country name provided"]
  /\ ~SearchCalled

StageOrder == <<"auth", "extract", "resolve", "country", "search", "filter", "wrap">>
Rank(st) == CHOOSE i \in 1..Len(StageOrder) : StageOrder[i] = st

\* the error responses of each stage
StageErrors(st) ==
  CASE st = "auth" -> {"Authorization header missing or invalid", "Invalid auth token"}
    [] st = "extract" -> {"Invalid Instagram URL format"}
    [] st = "resolve" -> {"Error retrieving data from Instagram",
                          "Invalid response structure from Instagram",
                          "Internal Server Error"}
    [] st = "country" -> {"Invalid country name provided"}
    [] st = "search" -> {"Error retrieving data from Google Lens API",
                         "Internal Server Error"}
    [] OTHER -> {}

\* C10: the stages run in the fixed order and none is skipped (filtering
\* runs only when the reply has matches); the search call is made after the
\* resolver call has completed; each outbound service is called at most
\* once; a failed request ends at the failing stage, with that stage's error
\* and no google_lens_result payload.
C10_PipelineOrder ==
  /\ \A i \in 1..(Len(stages) - 1) : Rank(stages[i]) < Rank(stages[i + 1])
  /\ \A i \in 1..Len(stages) :
       \A r \in 1..(Rank(stages[i]) - 1) :
         StageOrder[r] = "filter" \/ StageOrder[r] \in Range(SubSeq(stages, 1, i - 1))
  /\ \A i, j \in 1..Len(calls) : calls[i].service = calls[j].service => i = j
  /\ \A j \in 1..Len(calls) :
       calls[j].service = "serpapi" =>
         j = 2 /\ calls[1].service = "instagram" /\ ResolverSucceeded
  /\ (pc = "done" /\ "detail" \in DOMAIN response) =>
       /\ "body" \notin DOMAIN response
       /\ "wrap" \notin Range(stages)
       /\ result = None
       /\ response.detail \in StageErrors(stages[Len(stages)])
  /\ (pc = "done" /\ "detail" \notin DOMAIN response) =>
       /\ response.status = 200
       /\ Range(stages) \ {"filter"} = Range(StageOrder) \ {"filter"}

C10_Witness ==
  /\ pc = "done"
  /\ Len(calls) = 2
  /\ stages = <<"auth", "extract", "resolve", "country", "search">>
  /\ response.detail = "Error retrieving data from Google Lens API"

====
